---- MODULE Spec2Model ----
(***************************************************************************)
(* Model of plots/plotting.py: read_flux, plot_inwardflux, plot_accretion. *)
(*                                                                         *)
(* The module is used from an interactive session: the caller reads a      *)
(* table from disk, then calls the two renderers, either without an axis   *)
(* (the renderer creates a figure) or with the axis the caller made        *)
(* beforehand.  An exception raised by a call propagates to the session,   *)
(* which goes on with the next call.                                       *)
(*                                                                         *)
(* Times are in tenths of a time unit (2.5 is 25), so that the arithmetic  *)
(* of the lookup is exact integer arithmetic.  Row indices are 0-based as  *)
(* in the code; TLA+ sequences are 1-based, hence the +1 where a sequence  *)
(* is indexed by a row index.                                              *)
(***************************************************************************)
EXTENDS Integers, Sequences, FiniteSets, TLC

VARIABLES disk, data, lastRead, figs, axes, calls

vars == <<disk, data, lastRead, figs, axes, calls>>

(***************************************************************************)
(* Bounds and input sets                                                   *)
(***************************************************************************)
MaxRows == 2
MaxCols == 2
MaxCalls == 2

\* time labels, and requested times: 5 is as far from 0 as from 10 and lies
\* below an index without 0; 10 is a label; 18 and 26 are the documented
\* queries; 26 lies above every index drawn from IndexTimes
IndexTimes == {0, 10, 25}
QueryTimes == {5, 10, 18, 26}
FluxValues == {1, 3, 6}
Labels == {"1", "10", "au"}
NumericHeader == <<"1", "10", "100", "1000">>
Paths == {"flux.dat"}

\* axis=None, the default of the renderers' third parameter; axes and
\* figures are numbered from 1, so 0 is no axis and no figure
None == 0

Prefix(s, n) == SubSeq(s, 1, n)

SeqsUpTo(S, n) == UNION {[1..k -> S] : k \in 0..n}

InjSeqsUpTo(S, n) ==
  {s \in SeqsUpTo(S, n) : \A i, j \in DOMAIN s : s[i] = s[j] => i = j}

(***************************************************************************)
(* Files: a header line (the label of column 0, then one label per         *)
(* distance column) and one line per row (the time, then one flux value    *)
(* per column).                                                            *)
(***************************************************************************)
NoFile == [exists |-> FALSE, header |-> <<>>, rows |-> <<>>]

MkFile(labels, times, vals) ==
  [exists |-> TRUE,
   header |-> <<"time">> \o labels,
   rows   |-> [i \in DOMAIN times |-> <<times[i]>> \o vals[i]]]

\* every time index of up to MaxRows rows, sorted or not, unique or not
TimeFiles ==
  {MkFile(Prefix(NumericHeader, 2), ts, [i \in DOMAIN ts |-> <<i, 3 * i>>]) :
     ts \in SeqsUpTo(IndexTimes, MaxRows)}

\* one row, every flux row of up to MaxCols columns
RowFiles ==
  {MkFile(Prefix(NumericHeader, Len(f)), <<10>>, <<f>>) :
     f \in SeqsUpTo(FluxValues, MaxCols)}

\* every header of up to MaxCols distinct labels (the parser renames
\* repeated labels), over zero rows and over one row
HeaderFiles ==
  {MkFile(h, Prefix(<<10>>, r), [i \in 1..r |-> [j \in DOMAIN h |-> 2 * j]]) :
     h \in InjSeqsUpTo(Labels, MaxCols), r \in 0..1}

\* the table of the documented examples
ExampleFile ==
  MkFile(NumericHeader, <<0, 10, 25, 50>>,
         << <<6, 6, 3, 1>>, <<0, 1, 1, 3>>, <<1, 3, 6, 6>>, <<3, 3, 3, 3>> >>)

Files == TimeFiles \cup RowFiles \cup HeaderFiles \cup {ExampleFile}

(***************************************************************************)
(* pandas                                                                  *)
(***************************************************************************)
NoTable == [bound |-> FALSE, index |-> <<>>, columns |-> <<>>, values |-> <<>>]

\* pd.read_table(filename, index_col=0) on an existing file: column 0 is
\* the row index, the other header cells are the column labels, kept as text
pd_read_table(file) ==
  [bound   |-> TRUE,
   index   |-> [i \in DOMAIN file.rows |-> Head(file.rows[i])],
   columns |-> Tail(file.header),
   values  |-> [i \in DOMAIN file.rows |-> Tail(file.rows[i])]]

\* a reader that validates the column labels
read_table_raises_strict(file) ==
  \/ ~file.exists
  \/ \E j \in 2..Len(file.header) : file.header[j] \notin {"1", "10", "100", "1000"}

\* pd.read_table raises IOError when the path does not exist
read_table_raises(file) == ~file.exists

(***************************************************************************)
(* numpy and builtins                                                      *)
(***************************************************************************)
np_subtract(a, t) == [i \in DOMAIN a |-> a[i] - t]

\* the absolute value left out
np_abs_identity(a) == a

np_abs(a) == [i \in DOMAIN a |-> IF a[i] < 0 THEN 0 - a[i] ELSE a[i]]

\* an argmin that answers 0 for an empty array
np_argmin_raises_never(a) == FALSE

\* np.argmin raises ValueError on an empty array
np_argmin_raises(a) == Len(a) = 0

RECURSIVE argmin_scan(_, _, _)
argmin_scan(a, i, best) ==
  IF i > Len(a) THEN best
  ELSE argmin_scan(a, i + 1, IF a[i] < a[best] THEN i ELSE best)

RECURSIVE argmin_scan_last(_, _, _)
argmin_scan_last(a, i, best) ==
  IF i > Len(a) THEN best
  ELSE argmin_scan_last(a, i + 1, IF a[i] <= a[best] THEN i ELSE best)

\* the last occurrence of the minimum instead of the first
np_argmin_last(a) == argmin_scan_last(a, 2, 1) - 1

\* np.argmin: 0-based index of the first occurrence of the minimum
np_argmin(a) == argmin_scan(a, 2, 1) - 1

\* float(s) raises ValueError unless s is a numeric literal
float_raises(s) == s \notin {"1", "10", "100", "1000"}

float(s) ==
  CASE s = "1" -> 1
    [] s = "10" -> 10
    [] s = "100" -> 100
    [] s = "1000" -> 1000

map_float(labels) == [j \in DOMAIN labels |-> float(labels[j])]

\* flux[1::] - flux[0:-1]
np_diff(flux) ==
  [i \in 1..(IF Len(flux) = 0 THEN 0 ELSE Len(flux) - 1) |-> flux[i + 1] - flux[i]]

\* the padding left out
np_hstack_first(a, b) == a

np_hstack(a, b) == a \o b

(***************************************************************************)
(* matplotlib                                                              *)
(***************************************************************************)
NewAxis(fig) ==
  [figure |-> fig, lines |-> <<>>, xscale |-> "linear", xlabel |-> "", ylabel |-> ""]

\* two figures made where one is asked for
plt_figure_twice(F) == Append(Append(F, [subplots |-> <<>>]), [subplots |-> <<>>])

\* plt.figure(): a new figure without subplots
plt_figure(F) == Append(F, [subplots |-> <<>>])

\* fig.add_subplot(111): a new axis, registered in its figure
add_subplot(F, A, fig) ==
  [figs |-> [F EXCEPT ![fig].subplots = Append(@, Len(A) + 1)],
   axes |-> Append(A, NewAxis(fig))]

\* axis.semilogx(x, y) first makes the x scale logarithmic
set_xscale_log(A, ax) == [A EXCEPT ![ax].xscale = "log"]

\* ... then plots, which raises ValueError when x and y differ in length
plot_raises(x, y) == Len(x) # Len(y)

\* the axis cleared before the line is added
plot_replacing(A, ax, x, y) == [A EXCEPT ![ax].lines = <<[x |-> x, y |-> y]>>]

\* ... and otherwise adds one line artist to the axis
plot(A, ax, x, y) == [A EXCEPT ![ax].lines = Append(@, [x |-> x, y |-> y])]

set_xlabel(A, ax, s) == [A EXCEPT ![ax].xlabel = s]

set_ylabel(A, ax, s) == [A EXCEPT ![ax].ylabel = s]

(***************************************************************************)
(* The session's record of one renderer call: the arguments, how the call  *)
(* ended, what it computed and handed to the plotting library, and the     *)
(* figures and axes as they were when the call began.                      *)
(***************************************************************************)
CallRec(fn, time, axis, F, A) ==
  [fn |-> fn, time |-> time, axis |-> axis,
   outcome |-> "", error |-> "", line |-> 0, result |-> None, ax |-> None,
   closest_time_index |-> -1, printed |-> <<>>,
   converted |-> FALSE, smas |-> <<>>, flux |-> <<>>,
   passed |-> FALSE, y |-> <<>>, drawn |-> FALSE,
   xlabel |-> "", ylabel |-> "",
   before |-> [figs |-> F, axes |-> A]]

Raised(rec, error, line) ==
  [rec EXCEPT !.outcome = "raised", !.error = error, !.line = line]

Returned(rec, fig) == [rec EXCEPT !.outcome = "returned", !.result = fig]

(***************************************************************************)
(* plot_inwardflux(data, time, axis=None)                                  *)
(***************************************************************************)
inwardflux_closest_time_index(times, time) ==
  np_argmin(np_abs(np_subtract(times, time)))

inwardflux_smas(columns) == map_float(columns)

inwardflux_xlabel == "Distance from star [AU]"

inwardflux_ylabel == "Inward pebble flux [M$_{\\oplus}$/yr]"

plot_inwardflux_run(d, time, axis, F, A) ==
  LET F1  == IF axis = None THEN plt_figure(F) ELSE F
      fig == IF axis = None THEN Len(F1) ELSE None
      S1  == IF axis = None THEN add_subplot(F1, A, fig)
                            ELSE [figs |-> F1, axes |-> A]
      ax  == IF axis = None THEN Len(S1.axes) ELSE axis
      r0  == [CallRec("plot_inwardflux", time, axis, F, A) EXCEPT !.ax = ax]
      times == d.index
  IN
  IF np_argmin_raises(np_abs(np_subtract(times, time)))
  THEN [figs |-> S1.figs, axes |-> S1.axes, rec |-> Raised(r0, "ValueError", 18)]
  ELSE
  LET closest_time_index == inwardflux_closest_time_index(times, time)
      r1 == [r0 EXCEPT !.closest_time_index = closest_time_index,
                       !.printed = <<closest_time_index>>]
  IN
  IF closest_time_index + 1 \notin DOMAIN times
  THEN [figs |-> S1.figs, axes |-> S1.axes, rec |-> Raised(r1, "IndexError", 20)]
  ELSE IF \E j \in DOMAIN d.columns : float_raises(d.columns[j])
  THEN [figs |-> S1.figs, axes |-> S1.axes, rec |-> Raised(r1, "ValueError", 21)]
  ELSE
  LET smas == inwardflux_smas(d.columns)
      flux == d.values[closest_time_index + 1]
      r2 == [r1 EXCEPT !.converted = TRUE, !.smas = smas, !.flux = flux,
                       !.passed = TRUE, !.y = flux]
      A1 == set_xscale_log(S1.axes, ax)
  IN
  IF plot_raises(smas, flux)
  THEN [figs |-> S1.figs, axes |-> A1, rec |-> Raised(r2, "ValueError", 23)]
  ELSE
  LET A2 == plot(A1, ax, smas, flux)
      A3 == set_xlabel(A2, ax, inwardflux_xlabel)
      A4 == set_ylabel(A3, ax, inwardflux_ylabel)
      r3 == [r2 EXCEPT !.drawn = TRUE, !.xlabel = inwardflux_xlabel,
                       !.ylabel = inwardflux_ylabel]
  IN
  \* return(fig): fig is bound only when the call created the figure
  IF axis # None
  THEN [figs |-> S1.figs, axes |-> A4, rec |-> Raised(r3, "UnboundLocalError", 26)]
  ELSE [figs |-> S1.figs, axes |-> A4, rec |-> Returned(r3, fig)]

(***************************************************************************)
(* plot_accretion(data, time, axis=None)                                   *)
(***************************************************************************)
accretion_closest_time_index(times, time) ==
  np_argmin(np_abs(np_subtract(times, time)))

\* the distances in reverse column order
accretion_smas_reversed(columns) ==
  [j \in DOMAIN columns |-> float(columns[Len(columns) + 1 - j])]

accretion_smas(columns) == map_float(columns)

\* the difference taken the other way round
accretion_transform_swapped(flux) ==
  np_hstack([i \in 1..(IF Len(flux) = 0 THEN 0 ELSE Len(flux) - 1) |-> flux[i] - flux[i + 1]], <<0>>)

\* np.hstack((flux[1::]-flux[0:-1], [0]))
accretion_transform(flux) == np_hstack(np_diff(flux), <<0>>)

accretion_xlabel == "Distance from star [AU]"

accretion_ylabel == "d(inward flux)/dlog(orbital distance)"

plot_accretion_run(d, time, axis, F, A) ==
  LET F1  == IF axis = None THEN plt_figure(F) ELSE F
      fig == IF axis = None THEN Len(F1) ELSE None
      S1  == IF axis = None THEN add_subplot(F1, A, fig)
                            ELSE [figs |-> F1, axes |-> A]
      ax  == IF axis = None THEN Len(S1.axes) ELSE axis
      r0  == [CallRec("plot_accretion", time, axis, F, A) EXCEPT !.ax = ax]
      times == d.index
  IN
  IF np_argmin_raises(np_abs(np_subtract(times, time)))
  THEN [figs |-> S1.figs, axes |-> S1.axes, rec |-> Raised(r0, "ValueError", 34)]
  ELSE
  LET closest_time_index == accretion_closest_time_index(times, time)
      r1 == [r0 EXCEPT !.closest_time_index = closest_time_index,
                       !.printed = <<closest_time_index>>]
  IN
  IF closest_time_index + 1 \notin DOMAIN times
  THEN [figs |-> S1.figs, axes |-> S1.axes, rec |-> Raised(r1, "IndexError", 36)]
  ELSE IF \E j \in DOMAIN d.columns : float_raises(d.columns[j])
  THEN [figs |-> S1.figs, axes |-> S1.axes, rec |-> Raised(r1, "ValueError", 37)]
  ELSE
  LET smas == accretion_smas(d.columns)
      flux == d.values[closest_time_index + 1]
      accretion == accretion_transform(flux)
      r2 == [r1 EXCEPT !.converted = TRUE, !.smas = smas, !.flux = flux,
                       !.passed = TRUE, !.y = accretion]
      A1 == set_xscale_log(S1.axes, ax)
  IN
  IF plot_raises(smas, accretion)
  THEN [figs |-> S1.figs, axes |-> A1, rec |-> Raised(r2, "ValueError", 40)]
  ELSE
  LET A2 == plot(A1, ax, smas, accretion)
      A3 == set_xlabel(A2, ax, accretion_xlabel)
      A4 == set_ylabel(A3, ax, accretion_ylabel)
      r3 == [r2 EXCEPT !.drawn = TRUE, !.xlabel = accretion_xlabel,
                       !.ylabel = accretion_ylabel]
  IN
  IF axis # None
  THEN [figs |-> S1.figs, axes |-> A4, rec |-> Raised(r3, "UnboundLocalError", 43)]
  ELSE [figs |-> S1.figs, axes |-> A4, rec |-> Returned(r3, fig)]

(***************************************************************************)
(* The session                                                             *)
(***************************************************************************)
\* the axis the caller made beforehand (fig = plt.figure();
\* ax = fig.add_subplot(111)) and may supply to the renderers
CallerAxis == 1

NoRead == [path |-> "", outcome |-> "", error |-> ""]

Init ==
  /\ disk \in [Paths -> Files \cup {NoFile}]
  /\ data = NoTable
  /\ lastRead = NoRead
  /\ figs = add_subplot(plt_figure(<<>>), <<>>, 1).figs
  /\ axes = add_subplot(plt_figure(<<>>), <<>>, 1).axes
  /\ calls = <<>>

\* data = read_flux(path)
read_flux(path) ==
  /\ IF read_table_raises(disk[path])
     THEN /\ lastRead' = [path |-> path, outcome |-> "raised", error |-> "IOError"]
          /\ data' = data
     ELSE /\ lastRead' = [path |-> path, outcome |-> "returned", error |-> ""]
          /\ data' = pd_read_table(disk[path])
  /\ UNCHANGED <<disk, figs, axes, calls>>

plot_inwardflux(time, axis) ==
  /\ data.bound
  /\ Len(calls) < MaxCalls
  /\ LET r == plot_inwardflux_run(data, time, axis, figs, axes)
     IN /\ figs' = r.figs
        /\ axes' = r.axes
        /\ calls' = Append(calls, r.rec)
  /\ UNCHANGED <<disk, data, lastRead>>

plot_accretion(time, axis) ==
  /\ data.bound
  /\ Len(calls) < MaxCalls
  /\ LET r == plot_accretion_run(data, time, axis, figs, axes)
     IN /\ figs' = r.figs
        /\ axes' = r.axes
        /\ calls' = Append(calls, r.rec)
  /\ UNCHANGED <<disk, data, lastRead>>

Next ==
  \/ \E path \in Paths : read_flux(path)
  \/ \E time \in QueryTimes, axis \in {None, CallerAxis} : plot_inwardflux(time, axis)
  \/ \E time \in QueryTimes, axis \in {None, CallerAxis} : plot_accretion(time, axis)

Spec == Init /\ [][Next]_vars

(***************************************************************************)
(* Vocabulary of the properties                                            *)
(***************************************************************************)
\* the figures and axes as call k left them
After(k) ==
  IF k < Len(calls) THEN calls[k + 1].before ELSE [figs |-> figs, axes |-> axes]

Dist(a, b) == IF a >= b THEN a - b ELSE b - a

NumericLabels == \A j \in DOMAIN data.columns : ~float_raises(data.columns[j])

\* a table with at least one row and one column whose labels are numeric
ValidTable == Len(data.index) >= 1 /\ Len(data.columns) >= 1 /\ NumericLabels

IsMin(t) == \A j \in DOMAIN data.index : t <= data.index[j]

IsMax(t) == \A j \in DOMAIN data.index : t >= data.index[j]

OutOfRange(t) == Len(data.index) >= 1 /\ (IsMin(t + 1) \/ IsMax(t - 1))

FirstDifference(f, d) ==
  /\ Len(d) = Len(f)
  /\ \A i \in 1..(Len(f) - 1) : d[i] = f[i + 1] - f[i]
  /\ d[Len(f)] = 0

\* axis a is as it was before call k, in lines and labels
AxisUntouched(k, a) ==
  /\ After(k).axes[a].lines = calls[k].before.axes[a].lines
  /\ After(k).axes[a].xlabel = calls[k].before.axes[a].xlabel
  /\ After(k).axes[a].ylabel = calls[k].before.axes[a].ylabel

\* call k made no figure and no axis
NothingCreated(k) ==
  /\ After(k).figs = calls[k].before.figs
  /\ Len(After(k).axes) = Len(calls[k].before.axes)

\* C1: on a table with at least one row, the row index either renderer
\* selects minimizes |times[i] - t| over all rows and is the smallest index
\* that does; index [0.0, 1.0, 2.5, 5.0] with t = 2.6 or t = 1.8 selects 2.
C1_NearestFirst ==
  \A k \in DOMAIN calls :
    Len(data.index) >= 1 =>
      LET i == calls[k].closest_time_index
          t == calls[k].time
      IN /\ i + 1 \in DOMAIN data.index
         /\ calls[k].printed = <<i>>
         /\ \A j \in DOMAIN data.index :
              /\ Dist(data.index[i + 1], t) <= Dist(data.index[j], t)
              /\ j < i + 1 => Dist(data.index[i + 1], t) < Dist(data.index[j], t)
         /\ (data.index = <<0, 10, 25, 50>> /\ t \in {18, 26}) => i = 2

\* both renderers have resolved a tie between two different time labels
C1_Witness ==
  /\ Len(calls) = 2
  /\ calls[1].fn = "plot_inwardflux" /\ calls[2].fn = "plot_accretion"
  /\ \A k \in DOMAIN calls :
       /\ calls[k].closest_time_index = 0
       /\ \E j \in DOMAIN data.index :
            /\ j > 1
            /\ data.index[j] # data.index[1]
            /\ Dist(data.index[j], calls[k].time) = Dist(data.index[1], calls[k].time)

\* C2: for a selected flux row f of length n >= 1, the y sequence that
\* plot_accretion passes to the draw call is d with d[i] = f[i+1] - f[i] for
\* i in 0..n-2 and d[n-1] = 0, of the length of f and of the x sequence, and
\* it is the y data of the line drawn; [1, 3, 6, 6] gives [2, 3, 0, 0].
C2_AccretionTransform ==
  \A k \in DOMAIN calls :
    (calls[k].fn = "plot_accretion" /\ calls[k].passed /\ Len(calls[k].flux) >= 1) =>
      /\ calls[k].flux = data.values[calls[k].closest_time_index + 1]
      /\ FirstDifference(calls[k].flux, calls[k].y)
      /\ Len(calls[k].y) = Len(calls[k].smas)
      /\ calls[k].drawn
      /\ LET L == After(k).axes[calls[k].ax].lines
         IN Len(L) >= 1 /\ L[Len(L)] = [x |-> calls[k].smas, y |-> calls[k].y]
      /\ calls[k].flux = <<1, 3, 6, 6>> => calls[k].y = <<2, 3, 0, 0>>

C2_Witness ==
  \E k \in DOMAIN calls :
    /\ calls[k].fn = "plot_accretion"
    /\ calls[k].flux = <<1, 3, 6, 6>>
    /\ calls[k].y = <<2, 3, 0, 0>>
    /\ calls[k].drawn

\* C3: a call that ends in a failure has produced no partial plot: no axis
\* that existed has gained a line or a label, and the call has created no
\* figure and no subplot.
C3_NoPartialPlot ==
  \A k \in DOMAIN calls :
    calls[k].outcome = "raised" =>
      /\ NothingCreated(k)
      /\ \A a \in DOMAIN calls[k].before.axes : AxisUntouched(k, a)

\* C4: called with no axis on a valid non-empty table, a renderer creates
\* exactly one figure with exactly one subplot, draws the line and sets both
\* labels on that subplot and returns that figure; called with an axis, it
\* creates no figure and draws only into the supplied axis.
C4_FigureOrAxis ==
  \A k \in DOMAIN calls :
    LET c == calls[k]
        B == c.before
        Z == After(k)
    IN /\ (c.axis = None /\ ValidTable) =>
            /\ Len(Z.figs) = Len(B.figs) + 1
            /\ SubSeq(Z.figs, 1, Len(B.figs)) = B.figs
            /\ Len(Z.axes) = Len(B.axes) + 1
            /\ SubSeq(Z.axes, 1, Len(B.axes)) = B.axes
            /\ c.ax = Len(Z.axes)
            /\ Z.figs[Len(Z.figs)].subplots = <<c.ax>>
            /\ Z.axes[c.ax].figure = Len(Z.figs)
            /\ Z.axes[c.ax].lines = <<[x |-> c.smas, y |-> c.y]>>
            /\ Z.axes[c.ax].xlabel = "Distance from star [AU]"
            /\ Z.axes[c.ax].ylabel = c.ylabel /\ c.ylabel # ""
            /\ c.outcome = "returned"
            /\ c.result = Len(Z.figs)
       /\ c.axis # None =>
            /\ NothingCreated(k)
            /\ c.ax = c.axis
            /\ \A a \in DOMAIN B.axes : a # c.axis => Z.axes[a] = B.axes[a]
            /\ ValidTable =>
                 Z.axes[c.axis].lines =
                   Append(B.axes[c.axis].lines, [x |-> c.smas, y |-> c.y])

\* one call has created and returned a figure, another has drawn into the
\* supplied axis
C4_Witness ==
  /\ Len(calls) = 2
  /\ calls[1].axis = None /\ calls[1].outcome = "returned" /\ calls[1].result = 2
  /\ calls[2].axis = CallerAxis /\ calls[2].drawn
  /\ Len(figs) = 2
  /\ Len(axes[CallerAxis].lines) = 1

\* the two calls k-1 and k are the same renderer with the same time and the
\* same supplied axis
SameCallTwice(k) ==
  /\ k - 1 \in DOMAIN calls /\ k \in DOMAIN calls
  /\ calls[k].fn = calls[k - 1].fn
  /\ calls[k].time = calls[k - 1].time
  /\ calls[k].axis = calls[k - 1].axis
  /\ calls[k].axis # None

TwoIdenticalLines(k) ==
  LET a  == calls[k].axis
      L0 == calls[k - 1].before.axes[a].lines
      L2 == After(k).axes[a].lines
  IN /\ Len(L2) = Len(L0) + 2
     /\ SubSeq(L2, 1, Len(L0)) = L0
     /\ L2[Len(L0) + 1] = L2[Len(L0) + 2]
     /\ data = pd_read_table(disk[lastRead.path])

\* C5 as stated: a renderer called twice in a row with the same table, time
\* and supplied axis leaves the axis with exactly two more line artists, of
\* identical x and y data, and the table unchanged.
C5_Original == \A k \in DOMAIN calls : SameCallTwice(k) => TwoIdenticalLines(k)

\* C5 as amended: the same, for a table with at least one row and one
\* column whose column labels are numeric.
C5_Amended ==
  \A k \in DOMAIN calls : (SameCallTwice(k) /\ ValidTable) => TwoIdenticalLines(k)

C5_Witness ==
  /\ SameCallTwice(2)
  /\ ValidTable
  /\ Len(axes[CallerAxis].lines) = 2
  /\ axes[CallerAxis].lines[1] = axes[CallerAxis].lines[2]

\* C6 as stated: on a table with exactly one row the lookup does not fail
\* and selects index 0 for every time, and the accretion transform is [0.0].
C6_Original ==
  \A k \in DOMAIN calls :
    Len(data.index) = 1 =>
      /\ calls[k].closest_time_index = 0
      /\ (calls[k].fn = "plot_accretion" /\ calls[k].passed) => calls[k].y = <<0>>

\* C6 as amended: on a table with exactly one row the lookup does not fail
\* and selects index 0 for every time; the accretion transform of that row
\* runs along its n >= 1 columns, has length n and last element 0, and is
\* [0.0] when the row has a single column.
C6_Amended ==
  \A k \in DOMAIN calls :
    Len(data.index) = 1 =>
      /\ calls[k].closest_time_index = 0
      /\ calls[k].line \notin {18, 20, 34, 36}
      /\ (calls[k].fn = "plot_accretion" /\ calls[k].passed /\ Len(data.columns) >= 1) =>
           /\ calls[k].flux = data.values[1]
           /\ Len(calls[k].y) = Len(data.columns)
           /\ FirstDifference(calls[k].flux, calls[k].y)
           /\ Len(data.columns) = 1 => calls[k].y = <<0>>

\* a one-row table of two columns, whose accretion is not [0.0]
C6_Witness ==
  \E k \in DOMAIN calls :
    /\ Len(data.index) = 1
    /\ calls[k].fn = "plot_accretion"
    /\ calls[k].flux = <<1, 3>>
    /\ calls[k].y = <<2, 0>>

\* C7 as stated: a call whose time lies below the smallest or above the
\* largest time label ends in a failure, and no row is selected and drawn.
C7_Original ==
  \A k \in DOMAIN calls :
    OutOfRange(calls[k].time) =>
      /\ calls[k].outcome = "raised"
      /\ calls[k].closest_time_index = -1
      /\ ~calls[k].drawn

\* C7 as amended: a call whose time lies outside the range of the time
\* index does not fail at the lookup: it selects the first row that carries
\* the smallest label (time below the range) or the largest label (time
\* above), and on a table with at least one column and numeric labels it
\* draws that row and, when no axis was supplied, returns the figure.
C7_Amended ==
  \A k \in DOMAIN calls :
    OutOfRange(calls[k].time) =>
      LET i == calls[k].closest_time_index
      IN /\ i + 1 \in DOMAIN data.index
         /\ calls[k].line \notin {18, 20, 34, 36}
         /\ IsMin(calls[k].time + 1) => IsMin(data.index[i + 1])
         /\ IsMax(calls[k].time - 1) => IsMax(data.index[i + 1])
         /\ \A j \in 1..i : data.index[j] # data.index[i + 1]
         /\ ValidTable =>
              /\ calls[k].drawn
              /\ calls[k].flux = data.values[i + 1]
              /\ calls[k].axis = None => calls[k].outcome = "returned"

\* a time above the range of two different labels selects the later,
\* larger one, and the call returns
C7_Witness ==
  \E k \in DOMAIN calls :
    /\ Len(data.index) = 2
    /\ data.index[1] < data.index[2]
    /\ calls[k].time > data.index[2]
    /\ calls[k].closest_time_index = 1
    /\ calls[k].outcome = "returned"

C9_EmptyTable ==
  \A k \in DOMAIN calls :
    Len(data.index) = 0 =>
      /\ calls[k].outcome = "raised" /\ calls[k].error = "ValueError"
      /\ calls[k].line = (IF calls[k].fn = "plot_inwardflux" THEN 18 ELSE 34)
      /\ calls[k].closest_time_index = -1
      /\ ~calls[k].passed /\ ~calls[k].drawn
      /\ \A a \in DOMAIN calls[k].before.axes : AxisUntouched(k, a)
      /\ \A a \in DOMAIN After(k).axes :
           a \notin DOMAIN calls[k].before.axes =>
             After(k).axes[a] = NewAxis(After(k).axes[a].figure)

C9_Witness ==
  /\ Len(data.index) = 0
  /\ Len(calls) = 2
  /\ calls[1].axis = None /\ calls[1].outcome = "raised"
  /\ calls[2].axis = CallerAxis /\ calls[2].outcome = "raised"
  /\ calls[1].fn # calls[2].fn

\* C10: for the same table and time the two renderers select the same row
\* index and pass the same x sequence to the draw call, the column labels
\* converted to float in column order; they differ only in the y sequence
\* (the row itself, its first difference) and in the y-axis label.
C10_SameLookup ==
  \A k, m \in DOMAIN calls :
    (/\ calls[k].fn = "plot_inwardflux"
     /\ calls[m].fn = "plot_accretion"
     /\ calls[k].time = calls[m].time) =>
      /\ calls[k].closest_time_index = calls[m].closest_time_index
      /\ calls[k].printed = calls[m].printed
      /\ calls[k].passed = calls[m].passed
      /\ calls[k].smas = calls[m].smas
      /\ calls[k].flux = calls[m].flux
      /\ calls[k].passed =>
           /\ Len(calls[k].smas) = Len(data.columns)
           /\ \A j \in DOMAIN data.columns : calls[k].smas[j] = float(data.columns[j])
           /\ calls[k].y = calls[k].flux
           /\ Len(calls[k].flux) >= 1 => FirstDifference(calls[m].flux, calls[m].y)
      /\ (calls[k].drawn /\ calls[m].drawn) =>
           /\ calls[k].xlabel = calls[m].xlabel
           /\ calls[k].ylabel # calls[m].ylabel

C10_Witness ==
  /\ Len(calls) = 2
  /\ calls[1].fn = "plot_inwardflux" /\ calls[2].fn = "plot_accretion"
  /\ calls[1].time = calls[2].time
  /\ calls[1].drawn /\ calls[2].drawn
  /\ calls[1].closest_time_index = 1
  /\ Len(calls[1].smas) = 2
  /\ calls[1].y # calls[2].y

====
